---- MODULE Spec2Model ----
(***************************************************************************)
(* Model of api/app.py: the session maps (vector_dbs, pdf_filenames,       *)
(* conversation_histories), the request handlers that run as cooperative   *)
(* tasks over them, and the batched embedding call.                        *)
(*                                                                         *)
(* A string is a sequence of blocks; a block [src, id, lo, hi] is the run  *)
(* of characters lo..hi-1 of the text named (src, id).  Concatenation is   *)
(* \o and len() is the sum of the block lengths.                           *)
(*                                                                         *)
(* Spec runs the routes as tasks that interleave at their awaits and       *)
(* yields.  SpecEmbed runs one async_get_embeddings call on lists that     *)
(* span several sub-batches.  CharacterTextSplitter and VectorDatabase     *)
(* (package aimakerspace) are modelled from sections 4.1 and 4.3 of the    *)
(* specification.                                                          *)
(***************************************************************************)
EXTENDS Integers, Sequences, FiniteSets, TLC

\* ------------------------------------------------------------------ bounds
MaxRequests == 3
MaxFragments == 2
MaxBatches == 3
MaxInFlight == 2
MaxMargin == 8
MaxTextLen == 9
MaxChunkSize == 4

\* ------------------------------------------------------- program constants
max_history_tokens == 8000
batch_size == 1024
default_chunk_size == 1000
default_chunk_overlap == 200
default_num_chunks == 3

Sessions == {"A", "B"}
Requests == 1..MaxRequests

\* ----------------------------------------------------------------- strings
Block(src, id, lo, hi) == [src |-> src, id |-> id, lo |-> lo, hi |-> hi]

Text(src, id, n) == IF n = 0 THEN <<>> ELSE <<Block(src, id, 0, n)>>

RECURSIVE len(_)
len(s) == IF s = <<>> THEN 0 ELSE (Head(s).hi - Head(s).lo) + len(Tail(s))

\* str.strip(): the result is non-empty iff some character is not whitespace
strip_nonempty(s) == \E i \in 1..Len(s) : s[i].src # "ws" /\ s[i].hi > s[i].lo

\* s[lo:hi] of a text that is one block starting at 0
Slice(text, lo, hi) ==
    LET n  == len(text)
        h  == IF hi < n THEN hi ELSE n
    IN  IF lo >= h THEN <<>> ELSE <<Block(text[1].src, text[1].id, lo, h)>>

RECURSIVE join(_, _)
join(sep, parts) ==
    IF parts = <<>> THEN <<>>
    ELSE IF Len(parts) = 1 THEN parts[1]
    ELSE parts[1] \o sep \o join(sep, Tail(parts))

\* dict helpers
dict_set(d, k, v) == [x \in (DOMAIN d) \cup {k} |-> IF x = k THEN v ELSE d[x]]
dict_del(d, k) == [x \in (DOMAIN d) \ {k} |-> d[x]]

\* --------------------------------------------------- conversation history
Turn(role, content) == [role |-> role, content |-> content]

RECURSIVE content_chars(_)
content_chars(messages) ==
    IF messages = <<>> THEN 0
    ELSE len(Head(messages).content) + content_chars(Tail(messages))

\* an estimate that rounds up (true division compared with the budget)
estimate_tokens_rounding_up(messages) == (content_chars(messages) + 3) \div 4

\* sum(len(msg["content"]) for msg in messages) // 4
estimate_tokens(messages) == content_chars(messages) \div 4

\* a trim loop without the `len(...) > 2` guard
RECURSIVE trim_without_keeping_last(_, _)
trim_without_keeping_last(history, budget) ==
    IF Len(history) > 0 /\ estimate_tokens(history) > budget
    THEN trim_without_keeping_last(SubSeq(history, 3, Len(history)), budget)
    ELSE history

\* a trim that tests once (`if`) where the code loops (`while`)
trim_once(history, budget) ==
    IF Len(history) > 2 /\ estimate_tokens(history) > budget
    THEN SubSeq(history, 3, Len(history))
    ELSE history

\* the while loop of manage_conversation_history
RECURSIVE trim(_, _)
trim(history, budget) ==
    IF Len(history) > 2 /\ estimate_tokens(history) > budget
    THEN trim(SubSeq(history, 3, Len(history)), budget)
    ELSE history

\* the history as it is between the append of the user turn and the rest
manage_conversation_history_user_appended(histories, session_id, user_message, assistant_response, budget) ==
    LET existing == IF session_id \in DOMAIN histories THEN histories[session_id] ELSE <<>>
    IN  dict_set(histories, session_id, Append(existing, Turn("user", user_message)))

manage_conversation_history(histories, session_id, user_message, assistant_response, budget) ==
    LET existing == IF session_id \in DOMAIN histories THEN histories[session_id] ELSE <<>>
        appended == Append(Append(existing, Turn("user", user_message)),
                           Turn("assistant", assistant_response))
    IN  dict_set(histories, session_id, trim(appended, budget))

get_conversation_context(histories, session_id) ==
    IF session_id \in DOMAIN histories THEN histories[session_id] ELSE <<>>

\* ------------------------------------------------------ embedding provider
\* The vector the upstream model returns for a text: a fixed function of the
\* text (same text, same vector), with zero vectors and ties among its values.
RECURSIVE text_hash(_)
text_hash(s) == IF s = <<>> THEN 0 ELSE Head(s).lo + Head(s).hi + Head(s).id + text_hash(Tail(s))

EmbedOf(text) == LET h == text_hash(text) IN <<(h % 3) - 1, ((h \div 3) % 3) - 1>>

\* embedding_response.data for one call: one embedding per input, in input order
embedding_response(batch) == [i \in 1..Len(batch) |-> EmbedOf(batch[i])]

\* ---------------------------------- CustomEmbeddingModel.async_get_embeddings
Min(a, b) == IF a < b THEN a ELSE b

num_batches(list_of_text) == (Len(list_of_text) + batch_size - 1) \div batch_size

\* [list_of_text[i:i + batch_size] for i in range(0, len(list_of_text), batch_size)]
batches(list_of_text) ==
    [b \in 1..num_batches(list_of_text) |->
        SubSeq(list_of_text, (b - 1) * batch_size + 1,
               Min(b * batch_size, Len(list_of_text)))]

\* a gather that collected results as they complete
gather_store_as_completed(results, b, result) ==
    LET first == CHOOSE i \in 1..Len(results) :
                     results[i] = <<>> /\ \A j \in 1..(i - 1) : results[j] # <<>>
    IN  [results EXCEPT ![first] = result]

\* asyncio.gather keeps one result slot per awaitable, in argument order
gather_store(results, b, result) == [results EXCEPT ![b] = result]

\* a gather that swallowed exceptions (return_exceptions) and returned what it has
gather_ready_ignoring_failures(task_state) ==
    \A b \in 1..Len(task_state) : task_state[b] # "pending"

\* gather resumes its awaiter with the results once every awaitable has finished
gather_ready(task_state) == \A b \in 1..Len(task_state) : task_state[b] = "done"

\* gather raises the first exception of any awaitable to its awaiter
gather_raises(task_state) == \E b \in 1..Len(task_state) : task_state[b] = "failed"

\* [embedding for batch_result in results for embedding in batch_result]
RECURSIVE flatten(_)
flatten(results) == IF results = <<>> THEN <<>> ELSE Head(results) \o flatten(Tail(results))

\* CustomEmbeddingModel.get_embedding
get_embedding(text) == EmbedOf(text)

\* ------------------------------------------------- CharacterTextSplitter
\* a walk that stops as soon as a window reaches the end of the text
RECURSIVE split_from_covering(_, _, _, _)
split_from_covering(text, start, chunk_size, step) ==
    IF start >= len(text) THEN <<>>
    ELSE IF start + chunk_size >= len(text) THEN <<Slice(text, start, start + chunk_size)>>
    ELSE <<Slice(text, start, start + chunk_size)>>
         \o split_from_covering(text, start + step, chunk_size, step)

split_covering(text, chunk_size, chunk_overlap) ==
    split_from_covering(text, 0, chunk_size, chunk_size - chunk_overlap)

\* the splitter rejects a configuration whose window would not advance
split_valid(chunk_size, chunk_overlap) ==
    chunk_size > 0 /\ chunk_overlap >= 0 /\ chunk_overlap < chunk_size

RECURSIVE split_from(_, _, _, _)
split_from(text, start, chunk_size, step) ==
    IF start >= len(text) THEN <<>>
    ELSE <<Slice(text, start, start + chunk_size)>>
         \o split_from(text, start + step, chunk_size, step)

split(text, chunk_size, chunk_overlap) ==
    split_from(text, 0, chunk_size, chunk_size - chunk_overlap)

\* --------------------------------------------------------- VectorDatabase
build_from_list(list_of_text, embeddings) ==
    [i \in 1..Min(Len(list_of_text), Len(embeddings)) |->
        [chunk |-> list_of_text[i], vector |-> embeddings[i], sequence_index |-> i]]

dot(a, b) == a[1] * b[1] + a[2] * b[2]

\* cosine(a, q) > cosine(b, q), a zero vector scoring 0
cosine_greater(a, b, q) ==
    LET x == dot(a, q)
        y == dot(b, q)
        A == IF dot(a, a) = 0 THEN 1 ELSE dot(a, a)
        B == IF dot(b, b) = 0 THEN 1 ELSE dot(b, b)
    IN  IF x >= 0 /\ y < 0 THEN TRUE
        ELSE IF x < 0 /\ y >= 0 THEN FALSE
        ELSE IF x >= 0 THEN x * x * B > y * y * A
        ELSE x * x * B < y * y * A

\* entry i is ranked before entry j: higher score, ties by insertion order
ranked_before(index, q, i, j) ==
    \/ cosine_greater(index[i].vector, index[j].vector, q)
    \/ /\ ~cosine_greater(index[j].vector, index[i].vector, q)
       /\ i < j

rank(index, q, i) == Cardinality({j \in 1..Len(index) : ranked_before(index, q, j, i)})

search(index, query_vector, k) ==
    [p \in 1..Min(k, Len(index)) |->
        index[CHOOSE i \in 1..Len(index) : rank(index, query_vector, i) = p - 1]]

\* search_by_text(query_text, k, return_as_text=True)
search_by_text(index, query_text, k) ==
    LET found == search(index, get_embedding(query_text), k)
    IN  [p \in 1..Len(found) |-> found[p].chunk]

\* ------------------------------------------------------- prompt assembly
FilenameText(f) == <<Block(f.stem, 0, 0, 1), Block(f.ext, 0, 0, 4)>>

developer_message == Text("developer", 0, 10)

enhanced_message(filename, relevant_chunks, user_message) ==
    LET context == join(Text("nl", 0, 2), relevant_chunks)
    IN  Text("tmpl", 1, 18) \o FilenameText(filename) \o Text("tmpl", 2, 3)
        \o context \o Text("tmpl", 3, 17) \o user_message \o Text("tmpl", 4, 151)

\* messages built by chat.generate
build_messages(has_pdf, dbs, filenames, histories, session_id, user_message, k) ==
    <<Turn("developer", developer_message)>>
    \o get_conversation_context(histories, session_id)
    \o <<Turn("user",
              IF has_pdf
              THEN enhanced_message(filenames[session_id],
                                    search_by_text(dbs[session_id], user_message, k),
                                    user_message)
              ELSE user_message)>>

\* ------------------------------------------------------------------ state
VARIABLES
    vector_dbs,              \* dict session_id -> VectorDatabase (its entries)
    pdf_filenames,           \* dict session_id -> filename
    conversation_histories,  \* dict session_id -> list of turns
    pc,                      \* where each request's task stands
    req,                     \* each request's parameters and local variables
    response,                \* the latest thing a caller was told, and by which request
    last_turn                \* arguments of the latest manage_conversation_history call per session

vars == <<vector_dbs, pdf_filenames, conversation_histories, pc, req, response, last_turn>>

Filename(stem, ext) == [stem |-> stem, ext |-> ext]
None == Filename("None", "None")
endswith_pdf(filename) == filename.ext = ".pdf"

NoRequest ==
    [op |-> "none", session_id |-> "", filename |-> None, text |-> <<>>,
     chunk_size |-> 0, chunk_overlap |-> 0, list_of_text |-> <<>>,
     task_state |-> <<>>, results |-> <<>>, embeddings |-> <<>>,
     user_message |-> <<>>, num_chunks_to_retrieve |-> 0, has_pdf |-> FALSE,
     messages |-> <<>>, nfrag |-> 0, assistant_response |-> <<>>, yielded |-> <<>>]

NoResponse ==
    [request |-> 0, op |-> "none", session_id |-> "", status |-> 0, message |-> "",
     has_pdf |-> FALSE, filename |-> None, chunks |-> 0]

Reply(r, op, session_id, status, message) ==
    [NoResponse EXCEPT !.request = r, !.op = op, !.session_id = session_id,
                       !.status = status, !.message = message]

\* request inputs
UserLengths == {4}
RetrieveCounts == {1, default_num_chunks}
FragmentLengths == {1, 31991}

UploadInputs ==
    { [filename |-> Filename("a", ".pdf"), text |-> Text("doc", 1, 2500),
       chunk_size |-> default_chunk_size, chunk_overlap |-> default_chunk_overlap],
      [filename |-> Filename("b", ".pdf"), text |-> Text("doc", 2, 900),
       chunk_size |-> default_chunk_size, chunk_overlap |-> default_chunk_overlap],
      [filename |-> Filename("e", ".pdf"), text |-> Text("doc", 3, 0),
       chunk_size |-> default_chunk_size, chunk_overlap |-> default_chunk_overlap],
      [filename |-> Filename("n", ".txt"), text |-> Text("doc", 2, 900),
       chunk_size |-> default_chunk_size, chunk_overlap |-> default_chunk_overlap],
      [filename |-> Filename("a", ".pdf"), text |-> Text("doc", 1, 2500),
       chunk_size |-> 200, chunk_overlap |-> 200] }

\* delta.content of one streamed chunk: None, whitespace, or text of the reply
Deltas(r, at) ==
    {[none |-> TRUE, content |-> <<>>], [none |-> FALSE, content |-> <<Block("ws", r, at, at + 1)>>]}
    \cup {[none |-> FALSE, content |-> <<Block("reply", r, at, at + n)>>] : n \in FragmentLengths}

EmptyDict == [x \in {} |-> <<>>]

Init ==
    /\ vector_dbs = EmptyDict
    /\ pdf_filenames = EmptyDict
    /\ conversation_histories = EmptyDict
    /\ pc = [r \in Requests |-> "idle"]
    /\ req = [r \in Requests |-> NoRequest]
    /\ response = NoResponse
    /\ last_turn = [s \in Sessions |-> <<>>]

Running == {"accepted", "streaming", "reading", "embedding"}

in_flight == Cardinality({x \in Requests : pc[x] \in Running})

\* requests arrive one after another, at most MaxInFlight of them in flight
arrives(r) ==
    /\ pc[r] = "idle"
    /\ IF r = 1 THEN TRUE ELSE pc[r - 1] # "idle"
    /\ in_flight < MaxInFlight

\* the task of request r ends and its locals are gone
ends(r) ==
    /\ pc' = [pc EXCEPT ![r] = "finished"]
    /\ req' = [req EXCEPT ![r] = NoRequest]

says(r, status, message) ==
    response' = Reply(r, req[r].op, req[r].session_id, status, message)

shared == <<vector_dbs, pdf_filenames, conversation_histories, last_turn>>

\* ------------------------------------------------------------------- chat
\* chat(): has_pdf is evaluated, the StreamingResponse is returned
chat(r) ==
    /\ arrives(r)
    /\ \E s \in Sessions, n \in UserLengths, k \in RetrieveCounts :
          /\ req' = [req EXCEPT ![r] =
                        [NoRequest EXCEPT !.op = "chat", !.session_id = s,
                                          !.user_message = Text("user", r, n),
                                          !.num_chunks_to_retrieve = k,
                                          !.has_pdf = (s \in DOMAIN vector_dbs)]]
          /\ response' = Reply(r, "chat", s, 200, "streaming")
    /\ pc' = [pc EXCEPT ![r] = "accepted"]
    /\ UNCHANGED shared

\* generate() up to the completion request: the message list is built and sent
generate(r) ==
    /\ pc[r] = "accepted"
    /\ LET q == req[r] IN
       IF q.has_pdf /\ (q.session_id \notin DOMAIN vector_dbs
                        \/ q.session_id \notin DOMAIN pdf_filenames)
       THEN \* KeyError at vector_dbs[...] or pdf_filenames[...]
            /\ ends(r)
            /\ says(r, 200, "stream failed")
       ELSE \E ok \in BOOLEAN :
            IF ok
            THEN \* has_pdf and num_chunks_to_retrieve are not read after this point
                 /\ req' = [req EXCEPT ![r] =
                              [NoRequest EXCEPT !.op = q.op, !.session_id = q.session_id,
                                   !.user_message = q.user_message,
                                   !.messages =
                                       build_messages(q.has_pdf, vector_dbs, pdf_filenames,
                                           conversation_histories, q.session_id,
                                           q.user_message, q.num_chunks_to_retrieve)]]
                 /\ pc' = [pc EXCEPT ![r] = "streaming"]
                 /\ UNCHANGED response
            ELSE \* the query embedding or the completion request raises
                 /\ ends(r)
                 /\ says(r, 200, "stream failed")
    /\ UNCHANGED shared

\* assistant_response = content + assistant_response
accumulate_in_front(assistant_response, content) == content \o assistant_response

\* assistant_response += content
accumulate(assistant_response, content) == assistant_response \o content

\* one iteration of `for chunk in stream`
stream_chunk(r) ==
    /\ pc[r] = "streaming"
    /\ req[r].nfrag < MaxFragments
    /\ \E d \in Deltas(r, len(req[r].assistant_response)) :
          req' = [req EXCEPT ![r].nfrag = @ + 1,
                             ![r].messages = <<>>,   \* sent; not read again
                             ![r].assistant_response =
                                 IF d.none THEN @ ELSE accumulate(@, d.content),
                             ![r].yielded =
                                 IF d.none THEN @ ELSE Append(@, d.content)]
    /\ UNCHANGED <<pc, response, shared>>

\* the completion stream raises while it is iterated
stream_error(r) ==
    /\ pc[r] = "streaming"
    /\ ends(r)
    /\ says(r, 200, "stream failed")
    /\ UNCHANGED shared

\* a disconnect that saves what was streamed so far (a save in a `finally:`)
disconnect_saving_partial(r) ==
    /\ \/ pc[r] = "accepted"
       \/ pc[r] = "streaming" /\ req[r].yielded # <<>>
    /\ conversation_histories' =
           IF strip_nonempty(req[r].assistant_response)
           THEN manage_conversation_history(conversation_histories, req[r].session_id,
                    req[r].user_message, req[r].assistant_response, max_history_tokens)
           ELSE conversation_histories
    /\ last_turn' = IF strip_nonempty(req[r].assistant_response)
                    THEN [last_turn EXCEPT ![req[r].session_id] =
                             <<req[r].user_message, req[r].assistant_response>>]
                    ELSE last_turn
    /\ ends(r)
    /\ says(r, 200, "stream abandoned")
    /\ UNCHANGED <<vector_dbs, pdf_filenames>>

\* the client disconnects: the generator is closed where it is suspended
disconnect(r) ==
    /\ \/ pc[r] = "accepted"
       \/ pc[r] = "streaming" /\ req[r].yielded # <<>>
    /\ ends(r)
    /\ says(r, 200, "stream abandoned")
    /\ UNCHANGED shared

\* if assistant_response.strip(): manage_conversation_history(...)
save_turn(histories, session_id, user_message, assistant_response) ==
    IF strip_nonempty(assistant_response)
    THEN manage_conversation_history(histories, session_id, user_message,
                                     assistant_response, max_history_tokens)
    ELSE histories

\* the stream is exhausted: generate_and_save saves the turn
generate_and_save(r) ==
    /\ pc[r] = "streaming"
    /\ LET q == req[r] IN
       /\ conversation_histories' =
              save_turn(conversation_histories, q.session_id,
                        q.user_message, q.assistant_response)
       /\ last_turn' = IF strip_nonempty(q.assistant_response)
                       THEN [last_turn EXCEPT ![q.session_id] =
                                <<q.user_message, q.assistant_response>>]
                       ELSE last_turn
    /\ ends(r)
    /\ says(r, 200, "stream complete")
    /\ UNCHANGED <<vector_dbs, pdf_filenames>>

\* ------------------------------------------------- status and clear routes
pdf_status(r) ==
    /\ arrives(r)
    /\ \E s \in Sessions :
          LET has_pdf == s \in DOMAIN vector_dbs IN
          response' =
              [request |-> r, op |-> "pdf_status", session_id |-> s,
               status |-> 200, message |-> "", has_pdf |-> has_pdf,
               filename |-> IF s \in DOMAIN pdf_filenames THEN pdf_filenames[s] ELSE None,
               chunks |-> IF has_pdf THEN Len(vector_dbs[s]) ELSE 0]
    /\ ends(r)
    /\ UNCHANGED shared

\* a clear that deletes the index and leaves the filename
clear_pdf_keeping_filename(r) ==
    /\ arrives(r)
    /\ \E s \in Sessions :
          IF s \in DOMAIN vector_dbs
          THEN /\ vector_dbs' = dict_del(vector_dbs, s)
               /\ UNCHANGED pdf_filenames
               /\ response' = Reply(r, "clear_pdf", s, 200, "PDF cleared successfully")
          ELSE /\ UNCHANGED <<vector_dbs, pdf_filenames>>
               /\ response' = Reply(r, "clear_pdf", s, 404, "No PDF found for this session")
    /\ ends(r)
    /\ UNCHANGED <<conversation_histories, last_turn>>

\* clear_pdf(): both entries are deleted, or HTTPException(404)
clear_pdf(r) ==
    /\ arrives(r)
    /\ \E s \in Sessions :
          IF s \in DOMAIN vector_dbs
          THEN /\ vector_dbs' = dict_del(vector_dbs, s)
               /\ pdf_filenames' = dict_del(pdf_filenames, s)
               /\ response' = Reply(r, "clear_pdf", s, 200, "PDF cleared successfully")
          ELSE /\ UNCHANGED <<vector_dbs, pdf_filenames>>
               /\ response' = Reply(r, "clear_pdf", s, 404, "No PDF found for this session")
    /\ ends(r)
    /\ UNCHANGED <<conversation_histories, last_turn>>

\* a clear that answers a session without history with an error, as clear_pdf does
clear_conversation_raising(r) ==
    /\ arrives(r)
    /\ \E s \in Sessions :
          IF s \in DOMAIN conversation_histories
          THEN /\ conversation_histories' = dict_del(conversation_histories, s)
               /\ response' = Reply(r, "clear_conversation", s, 200,
                                    "Conversation history cleared successfully")
          ELSE /\ UNCHANGED conversation_histories
               /\ response' = Reply(r, "clear_conversation", s, 404,
                                    "No conversation history found for this session")
    /\ ends(r)
    /\ UNCHANGED <<vector_dbs, pdf_filenames, last_turn>>

clear_conversation(r) ==
    /\ arrives(r)
    /\ \E s \in Sessions :
          IF s \in DOMAIN conversation_histories
          THEN /\ conversation_histories' = dict_del(conversation_histories, s)
               /\ response' = Reply(r, "clear_conversation", s, 200,
                                    "Conversation history cleared successfully")
          ELSE /\ UNCHANGED conversation_histories
               /\ response' = Reply(r, "clear_conversation", s, 200,
                                    "No conversation history found for this session")
    /\ ends(r)
    /\ UNCHANGED <<vector_dbs, pdf_filenames, last_turn>>

\* ----------------------------------------------------------------- upload
\* HTTPException(status_code=500, detail="Error processing PDF: ...")
upload_error(r, q) ==
    /\ response' = Reply(r, "upload_pdf", q.session_id, 500, "Error processing PDF")
    /\ UNCHANGED shared

\* a store that ignores the session id of the request (one shared "default" slot)
store_index_in_one_slot(r, q, vector_db) ==
    /\ vector_dbs' = dict_set(vector_dbs, "A", vector_db)
    /\ pdf_filenames' = dict_set(pdf_filenames, "A", q.filename)
    /\ response' =
           [request |-> r, op |-> "upload_pdf", session_id |-> q.session_id,
            status |-> 200, message |-> "PDF uploaded and indexed successfully",
            has_pdf |-> TRUE, filename |-> q.filename, chunks |-> Len(vector_db)]
    /\ UNCHANGED <<conversation_histories, last_turn>>

\* a store that adds the new entries to the index the session already has
store_index_appending(r, q, vector_db) ==
    /\ vector_dbs' = dict_set(vector_dbs, q.session_id,
                         IF q.session_id \in DOMAIN vector_dbs
                         THEN vector_dbs[q.session_id] \o vector_db
                         ELSE vector_db)
    /\ pdf_filenames' = dict_set(pdf_filenames, q.session_id, q.filename)
    /\ response' =
           [request |-> r, op |-> "upload_pdf", session_id |-> q.session_id,
            status |-> 200, message |-> "PDF uploaded and indexed successfully",
            has_pdf |-> TRUE, filename |-> q.filename, chunks |-> Len(vector_db)]
    /\ UNCHANGED <<conversation_histories, last_turn>>

\* vector_dbs[session_id] = vector_db; pdf_filenames[session_id] = file.filename
store_index(r, q, vector_db) ==
    /\ vector_dbs' = dict_set(vector_dbs, q.session_id, vector_db)
    /\ pdf_filenames' = dict_set(pdf_filenames, q.session_id, q.filename)
    /\ response' =
           [request |-> r, op |-> "upload_pdf", session_id |-> q.session_id,
            status |-> 200, message |-> "PDF uploaded and indexed successfully",
            has_pdf |-> TRUE, filename |-> q.filename, chunks |-> Len(vector_db)]
    /\ UNCHANGED <<conversation_histories, last_turn>>

\* upload_pdf() up to `await file.read()`
upload_pdf(r) ==
    /\ arrives(r)
    /\ \E s \in Sessions, u \in UploadInputs :
          LET q == [NoRequest EXCEPT !.op = "upload_pdf", !.session_id = s,
                                     !.filename = u.filename, !.text = u.text,
                                     !.chunk_size = u.chunk_size,
                                     !.chunk_overlap = u.chunk_overlap]
          IN  IF endswith_pdf(u.filename)
              THEN /\ req' = [req EXCEPT ![r] = q]
                   /\ pc' = [pc EXCEPT ![r] = "reading"]
                   /\ UNCHANGED <<response, shared>>
              ELSE \* HTTPException(400) is caught by `except Exception`
                   /\ ends(r)
                   /\ upload_error(r, q)

\* the splitter's configuration error, reported by upload_pdf's `except Exception`
configuration_error(r, q) ==
    /\ response' = Reply(r, "upload_pdf", q.session_id, 500,
                         "Error processing PDF: configuration error")
    /\ UNCHANGED shared

\* create_rag_system with a splitter that checks nothing and, when its window
\* does not advance, returns no chunk
create_rag_system_unvalidated(r) ==
    /\ pc[r] = "reading"
    /\ LET q == req[r] IN
       \E extracted \in BOOLEAN :
          IF ~extracted
          THEN /\ ends(r)
               /\ upload_error(r, q)
          ELSE LET chunks == IF q.chunk_size - q.chunk_overlap > 0
                             THEN split(q.text, q.chunk_size, q.chunk_overlap)
                             ELSE <<>>
                   n      == num_batches(chunks)
               IN  IF n = 0
                   THEN /\ ends(r)
                        /\ store_index(r, q, build_from_list(chunks, flatten(<<>>)))
                   ELSE /\ req' = [req EXCEPT ![r].list_of_text = chunks,
                                              ![r].task_state = [b \in 1..n |-> "pending"],
                                              ![r].results = [b \in 1..n |-> <<>>]]
                        /\ pc' = [pc EXCEPT ![r] = "embedding"]
                        /\ UNCHANGED <<response, shared>>

\* text extraction and create_rag_system() up to the await of the gathered batches
create_rag_system(r) ==
    /\ pc[r] = "reading"
    /\ LET q == req[r] IN
       \E extracted \in BOOLEAN :
          IF ~extracted
          THEN /\ ends(r)
               /\ upload_error(r, q)
          ELSE IF ~split_valid(q.chunk_size, q.chunk_overlap)
          THEN /\ ends(r)
               /\ configuration_error(r, q)
          ELSE LET chunks == split(q.text, q.chunk_size, q.chunk_overlap)
                   n      == num_batches(chunks)
               IN  IF n = 0
                   THEN \* gather() of no awaitables is already done: no suspension
                        /\ ends(r)
                        /\ store_index(r, q, build_from_list(chunks, flatten(<<>>)))
                   ELSE /\ req' = [req EXCEPT ![r].list_of_text = chunks,
                                              ![r].task_state = [b \in 1..n |-> "pending"],
                                              ![r].results = [b \in 1..n |-> <<>>]]
                        /\ pc' = [pc EXCEPT ![r] = "embedding"]
                        /\ UNCHANGED <<response, shared>>

\* process_batch(batch) returns the embeddings of its batch
process_batch(r, b) ==
    /\ pc[r] \in {"embedding", "raised"}
    /\ b \in 1..Len(req[r].task_state)
    /\ req[r].task_state[b] = "pending"
    /\ req' = [req EXCEPT ![r].task_state[b] = "done",
                          ![r].results = gather_store(@, b,
                              embedding_response(batches(req[r].list_of_text)[b]))]
    /\ UNCHANGED <<pc, response, shared>>

\* the upstream embeddings.create call of one batch raises
process_batch_raises(r, b) ==
    /\ pc[r] \in {"embedding", "raised"}
    /\ b \in 1..Len(req[r].task_state)
    /\ req[r].task_state[b] = "pending"
    /\ req' = [req EXCEPT ![r].task_state[b] = "failed"]
    /\ UNCHANGED <<pc, response, shared>>

\* gather returns: the index is built and stored
upload_pdf_store(r) ==
    /\ pc[r] = "embedding"
    /\ req[r].op = "upload_pdf"
    /\ gather_ready(req[r].task_state)
    /\ LET q == req[r] IN
       store_index(r, q, build_from_list(q.list_of_text, flatten(q.results)))
    /\ ends(r)

\* an upload that stores what was embedded so far before it reports the error
upload_pdf_raises_storing_partial(r) ==
    /\ pc[r] = "embedding"
    /\ req[r].op = "upload_pdf"
    /\ gather_raises(req[r].task_state) \/ gather_ready(req[r].task_state)
    /\ vector_dbs' = dict_set(vector_dbs, req[r].session_id,
                         build_from_list(req[r].list_of_text, flatten(req[r].results)))
    /\ pdf_filenames' = dict_set(pdf_filenames, req[r].session_id, req[r].filename)
    /\ response' = Reply(r, "upload_pdf", req[r].session_id, 500, "Error processing PDF")
    /\ UNCHANGED <<conversation_histories, last_turn>>
    /\ ends(r)

\* gather raises, or building the index raises: nothing is stored
upload_pdf_raises(r) ==
    /\ pc[r] = "embedding"
    /\ req[r].op = "upload_pdf"
    /\ gather_raises(req[r].task_state) \/ gather_ready(req[r].task_state)
    /\ upload_error(r, req[r])
    /\ ends(r)

Next ==
    \E r \in Requests :
        \/ chat(r)
        \/ generate(r)
        \/ stream_chunk(r)
        \/ stream_error(r)
        \/ disconnect(r)
        \/ generate_and_save(r)
        \/ pdf_status(r)
        \/ clear_pdf(r)
        \/ clear_conversation(r)
        \/ upload_pdf(r)
        \/ create_rag_system(r)
        \/ \E b \in 1..MaxBatches : process_batch(r, b) \/ process_batch_raises(r, b)
        \/ upload_pdf_store(r)
        \/ upload_pdf_raises(r)

Spec == Init /\ [][Next]_vars

\* ------------------------------------- async_get_embeddings on its own
\* list lengths around the sub-batch boundaries, up to MaxBatches sub-batches
EmbedLengths ==
    {0, 1, batch_size - 1, batch_size, batch_size + 1}
    \cup {(n - 1) * batch_size + 1 : n \in 2..MaxBatches}
    \cup {n * batch_size : n \in 2..MaxBatches}

EmbedInput(n) == [i \in 1..n |-> <<Block("text", 0, i - 1, i)>>]

\* async_get_embeddings(list_of_text) up to the await of the gathered batches
InitEmbed ==
    /\ vector_dbs = EmptyDict
    /\ pdf_filenames = EmptyDict
    /\ conversation_histories = EmptyDict
    /\ response = NoResponse
    /\ last_turn = [s \in Sessions |-> <<>>]
    /\ \E n \in EmbedLengths :
          LET list_of_text == EmbedInput(n)
              nb == num_batches(list_of_text)
          IN  /\ req = [r \in Requests |->
                          IF r = 1
                          THEN [NoRequest EXCEPT !.op = "embed",
                                    !.list_of_text = list_of_text,
                                    !.task_state = [b \in 1..nb |-> "pending"],
                                    !.results = [b \in 1..nb |-> <<>>]]
                          ELSE NoRequest]
              /\ pc = [r \in Requests |-> IF r = 1 THEN "embedding" ELSE "idle"]

\* gather returns: the batch results are flattened and returned
async_get_embeddings(r) ==
    /\ pc[r] = "embedding"
    /\ req[r].op = "embed"
    /\ gather_ready(req[r].task_state)
    /\ req' = [req EXCEPT ![r].embeddings = flatten(req[r].results)]
    /\ pc' = [pc EXCEPT ![r] = "returned"]
    /\ UNCHANGED <<response, shared>>

\* gather raises the exception of a failed batch to the caller
async_get_embeddings_raises(r) ==
    /\ pc[r] = "embedding"
    /\ req[r].op = "embed"
    /\ gather_raises(req[r].task_state)
    /\ pc' = [pc EXCEPT ![r] = "raised"]
    /\ UNCHANGED <<req, response, shared>>

NextEmbed ==
    \E r \in Requests :
        \/ \E b \in 1..MaxBatches : process_batch(r, b) \/ process_batch_raises(r, b)
        \/ async_get_embeddings(r)
        \/ async_get_embeddings_raises(r)

SpecEmbed == InitEmbed /\ [][NextEmbed]_vars

\* ----------------------------------------- one ingestion over many inputs
\* texts of 0..MaxTextLen characters under every chunk_size and chunk_overlap
\* up to MaxChunkSize, valid or not, and the inputs of UploadInputs
SplitInputs ==
    { [filename |-> Filename("a", ".pdf"), text |-> Text("doc", 1, n),
       chunk_size |-> cs, chunk_overlap |-> co] :
          n \in 0..MaxTextLen, cs \in (-1)..MaxChunkSize, co \in 0..MaxChunkSize }
    \cup {u \in UploadInputs : endswith_pdf(u.filename)}

\* upload_pdf() has read the file of the first request
InitSplit ==
    /\ vector_dbs = EmptyDict
    /\ pdf_filenames = EmptyDict
    /\ conversation_histories = EmptyDict
    /\ response = NoResponse
    /\ last_turn = [s \in Sessions |-> <<>>]
    /\ \E u \in SplitInputs :
          req = [r \in Requests |->
                   IF r = 1
                   THEN [NoRequest EXCEPT !.op = "upload_pdf", !.session_id = "A",
                             !.filename = u.filename, !.text = u.text,
                             !.chunk_size = u.chunk_size,
                             !.chunk_overlap = u.chunk_overlap]
                   ELSE NoRequest]
    /\ pc = [r \in Requests |-> IF r = 1 THEN "reading" ELSE "idle"]

NextSplit ==
    \E r \in Requests :
        \/ create_rag_system(r)
        \/ \E b \in 1..MaxBatches : process_batch(r, b) \/ process_batch_raises(r, b)
        \/ upload_pdf_store(r)
        \/ upload_pdf_raises(r)

SpecSplit == InitSplit /\ [][NextSplit]_vars

\* the last two entries of a history
LastPair(h) == <<h[Len(h) - 1], h[Len(h)]>>

\* ------------------------------ manage_conversation_history on its own
\* Histories whose size is within MaxMargin characters of the budget boundary:
\* a stored pair with an assistant turn of 4 * budget - 8 - k characters,
\* optionally after an older short pair, and a request whose stream has
\* produced a response of 1..MaxMargin characters and is about to end.
TrimHistories ==
    { older \o <<Turn("user", Text("user", 2, 4)),
                 Turn("assistant", Text("reply", 2, 4 * max_history_tokens - 8 - k))>> :
          older \in {<<>>, <<Turn("user", Text("user", 1, 4)),
                             Turn("assistant", Text("reply", 1, 1))>>},
          k \in 0..MaxMargin }

\* a history manage_conversation_history can have left behind
stored(history) == trim(history, max_history_tokens) = history

InitTrim ==
    /\ vector_dbs = EmptyDict
    /\ pdf_filenames = EmptyDict
    /\ response = NoResponse
    /\ \E h \in {x \in TrimHistories : stored(x)}, b \in 1..MaxMargin :
          /\ conversation_histories = dict_set(EmptyDict, "A", h)
          /\ last_turn = [s \in Sessions |->
                             IF s = "A" THEN <<LastPair(h)[1].content, LastPair(h)[2].content>>
                             ELSE <<>>]
          /\ req = [r \in Requests |->
                      IF r = 3
                      THEN [NoRequest EXCEPT !.op = "chat", !.session_id = "A",
                                !.user_message = Text("user", 3, 4),
                                !.nfrag = 1,
                                !.assistant_response = Text("reply", 3, b),
                                !.yielded = <<Text("reply", 3, b)>>]
                      ELSE NoRequest]
    /\ pc = [r \in Requests |-> IF r = 3 THEN "streaming" ELSE "finished"]

NextTrim == \E r \in Requests : generate_and_save(r)

SpecTrim == InitTrim /\ [][NextTrim]_vars

\* ===================================================================== C8
\* C8: when async_get_embeddings returns, it returns exactly one vector per
\* input text and the vector at position i is the one the provider produced
\* for input i, whatever the list length and the order in which the
\* sub-batches completed.
C8_OrderPreserved ==
    \A r \in Requests :
        (req[r].op = "embed" /\ pc[r] = "returned") =>
            /\ Len(req[r].embeddings) = Len(req[r].list_of_text)
            /\ \A i \in 1..Len(req[r].list_of_text) :
                   req[r].embeddings[i] = EmbedOf(req[r].list_of_text[i])

\* a call over several sub-batches, the last one not full, has returned
C8_Witness ==
    \E r \in Requests :
        /\ req[r].op = "embed" /\ pc[r] = "returned"
        /\ Len(req[r].task_state) >= 2
        /\ Len(req[r].list_of_text) % batch_size = 1
        /\ Len(req[r].embeddings) = Len(req[r].list_of_text)

\* ===================================================================== C9
\* C9: once the upstream call of any one sub-batch has failed, the call never
\* returns vectors: it can only still be waiting or have raised, and its
\* result stays empty however many other sub-batches succeeded; a call that
\* returns, returns the full list.
C9_AllOrNothing ==
    \A r \in Requests :
        /\ gather_raises(req[r].task_state) =>
               (pc[r] \in {"embedding", "raised"} /\ req[r].embeddings = <<>>)
        /\ (req[r].op = "embed" /\ pc[r] = "returned") =>
               Len(req[r].embeddings) = Len(req[r].list_of_text)

\* the call has raised with one sub-batch failed, one succeeded and one in flight
C9_Witness ==
    \E r \in Requests :
        /\ pc[r] = "raised"
        /\ req[r].embeddings = <<>>
        /\ \E a, b \in 1..Len(req[r].task_state) :
               req[r].task_state[a] = "failed" /\ req[r].task_state[b] = "done"

\* ------------------------------------------------------ reading a step
\* request r takes this step
acts(r) == pc'[r] # pc[r] \/ req'[r] # req[r]

\* the session the request taking this step works on
session_of(r) ==
    IF req[r].op # "none" THEN req[r].session_id
    ELSE IF req'[r].op # "none" THEN req'[r].session_id
    ELSE response'.session_id

\* request r's stream is exhausted in this step (generate_and_save runs to its end)
completes(r) ==
    /\ pc[r] = "streaming" /\ pc'[r] = "finished"
    /\ response'.request = r /\ response'.message = "stream complete"

\* ===================================================================== C1
\* C1: every stored conversation history has even, non-zero length and its
\* last two entries are the user message and the assistant message of the
\* most recent manage_conversation_history call for that session, also when
\* that pair alone exceeds the token budget.
C1_HistoryPairing ==
    \A s \in DOMAIN conversation_histories :
        LET h == conversation_histories[s] IN
        /\ Len(h) % 2 = 0
        /\ Len(h) >= 2
        /\ LastPair(h) = <<Turn("user", last_turn[s][1]), Turn("assistant", last_turn[s][2])>>

\* the third request's pair was appended to a session, it alone exceeds the
\* budget, and it is all that is left of the history
C1_Witness ==
    \E s \in DOMAIN conversation_histories :
        LET h == conversation_histories[s] IN
        /\ Len(h) = 2
        /\ estimate_tokens(h) > max_history_tokens
        /\ h[1].content[1].id = 3

\* ===================================================================== C2
\* C2: when generate_and_save saves a turn, the session's new history is the
\* old history plus the new pair with a whole number of leading pairs removed;
\* it is within the budget or is a single pair; and no shorter removal would
\* do: every longer suffix of whole pairs is over the budget and longer than
\* one pair.
C2_TrimOldestPairs ==
    [][\A r \in Requests :
          (completes(r) /\ strip_nonempty(req[r].assistant_response)) =>
             LET s    == req[r].session_id
                 full == get_conversation_context(conversation_histories, s)
                         \o <<Turn("user", req[r].user_message),
                              Turn("assistant", req[r].assistant_response)>>
                 post == conversation_histories'[s]
                 d    == Len(full) - Len(post)
             IN  /\ d >= 0 /\ d % 2 = 0
                 /\ post = SubSeq(full, d + 1, Len(full))
                 /\ estimate_tokens(post) <= max_history_tokens \/ Len(post) = 2
                 /\ \A e \in 0..(d - 1) :
                        e % 2 = 0 =>
                           /\ estimate_tokens(SubSeq(full, e + 1, Len(full)))
                                  > max_history_tokens
                           /\ Len(full) - e > 2
      ]_vars

\* two pairs are stored after the third request saved its turn: the older,
\* long one was kept because the estimate of both is just within the budget
C2_Witness ==
    \E s \in DOMAIN conversation_histories :
        LET h == conversation_histories[s] IN
        /\ Len(h) = 4
        /\ estimate_tokens(h) <= max_history_tokens
        /\ h[1].content[1].id = 2 /\ h[3].content[1].id = 3
        /\ len(h[2].content) > 4 * max_history_tokens - 100

\* ===================================================================== C3
\* C3: no step of a chat request other than the successful end of its stream
\* changes the conversation histories: a request whose stream fails before or
\* during streaming, or is abandoned on a disconnect, leaves every history as
\* it was, with no user turn and no partial assistant turn appended.
C3_FailedStreamKeepsHistory ==
    [][\A r \in Requests :
          (acts(r) /\ (req[r].op = "chat" \/ req'[r].op = "chat") /\ ~completes(r)) =>
             conversation_histories' = conversation_histories
      ]_vars

\* a stream was abandoned after a non-blank fragment had been streamed, in a
\* session that has a history to spoil
C3_Witness ==
    /\ response.op = "chat" /\ response.message = "stream abandoned"
    /\ response.session_id \in DOMAIN conversation_histories
    /\ response.request = 2

\* ===================================================================== C4
\* C4 as claimed: whenever a chat request's stream runs to completion, the
\* session's history then ends with the pair of that request.
C4_AlwaysSaved ==
    (response.op = "chat" /\ response.message = "stream complete") =>
        /\ response.session_id \in DOMAIN conversation_histories
        /\ LastPair(conversation_histories[response.session_id])[1].content[1].id
               = response.request

\* C4 as amended: when a chat request's stream runs to completion and the
\* accumulated response has a non-whitespace character, the session's history
\* gets exactly one new pair, its last: the raw user_message and the
\* concatenation, in order, of the fragments streamed to the caller; when the
\* accumulated response is empty or whitespace only, no history changes.
C4_SavedOnceWhenNonBlank ==
    [][\A r \in Requests :
          completes(r) =>
             LET s == req[r].session_id
                 user == Turn("user", req[r].user_message)
             IN  IF strip_nonempty(req[r].assistant_response)
                 THEN /\ s \in DOMAIN conversation_histories'
                      /\ LastPair(conversation_histories'[s]) =
                             <<user, Turn("assistant", flatten(req[r].yielded))>>
                      /\ Cardinality({i \in 1..Len(conversation_histories'[s]) :
                                         conversation_histories'[s][i] = user}) = 1
                      /\ \A t \in Sessions \ {s} :
                             get_conversation_context(conversation_histories', t)
                                 = get_conversation_context(conversation_histories, t)
                 ELSE conversation_histories' = conversation_histories
      ]_vars

\* the stream of a request completed after two different non-blank fragments
\* and its pair is the last of the session's history
C4_Witness ==
    /\ response.op = "chat" /\ response.message = "stream complete"
    /\ response.session_id \in DOMAIN conversation_histories
    /\ LET p == LastPair(conversation_histories[response.session_id]) IN
       /\ p[1].content[1].id = response.request
       /\ Len(p[2].content) = 2
       /\ p[2].content[1].src = "reply" /\ p[2].content[2].src = "reply"
       /\ len(<<p[2].content[1]>>) # len(<<p[2].content[2]>>)

\* ===================================================================== C5
\* the index and the filename a complete ingestion of upload input u stores
IndexOf(u) ==
    LET chunks == split(u.text, u.chunk_size, u.chunk_overlap)
    IN  [i \in 1..Len(chunks) |->
            [chunk |-> chunks[i], vector |-> EmbedOf(chunks[i]), sequence_index |-> i]]

\* C5: a step of an upload request that does not end it with success leaves
\* vector_dbs and pdf_filenames exactly as they were (so a failure at the
\* filename check, the extraction, the chunking, a sub-batch or the build
\* stores nothing), and every index ever stored is the complete index of one
\* upload's document together with that upload's filename.
C5_FailedIngestStoresNothing ==
    /\ [][\A r \in Requests :
            (/\ acts(r)
             /\ req[r].op = "upload_pdf" \/ req'[r].op = "upload_pdf"
                   \/ (response'.request = r /\ response'.op = "upload_pdf")
             /\ ~(response'.request = r /\ response'.status = 200)) =>
                (vector_dbs' = vector_dbs /\ pdf_filenames' = pdf_filenames)
        ]_vars
    /\ [](\A s \in DOMAIN vector_dbs :
            \E u \in UploadInputs :
               /\ split_valid(u.chunk_size, u.chunk_overlap)
               /\ vector_dbs[s] = IndexOf(u)
               /\ s \in DOMAIN pdf_filenames /\ pdf_filenames[s] = u.filename)

\* an upload failed for a session that still holds the index of an earlier upload
C5_Witness ==
    /\ response.op = "upload_pdf" /\ response.status = 500
    /\ response.session_id \in DOMAIN vector_dbs
    /\ Len(vector_dbs[response.session_id]) > 1

\* ===================================================================== C6
\* C6 as claimed: no session ever holds an index with zero entries (an
\* ingestion that yields zero chunks fails and stores nothing).
C6_NoEmptyIndex ==
    \A s \in DOMAIN vector_dbs : Len(vector_dbs[s]) > 0

\* ===================================================================== C7
Same(d, e, t) == (t \in DOMAIN d <=> t \in DOMAIN e) /\ (t \in DOMAIN d => d[t] = e[t])

\* C7: a step taken by a request for one session leaves the index, the
\* filename and the conversation history of every other session as they were,
\* and an upload that stores, stores under its own session the index built
\* from its own document and its own filename.
C7_SessionsIndependent ==
    [][\A r \in Requests :
          acts(r) =>
             /\ \A t \in Sessions \ {session_of(r)} :
                    /\ Same(vector_dbs, vector_dbs', t)
                    /\ Same(pdf_filenames, pdf_filenames', t)
                    /\ Same(conversation_histories, conversation_histories', t)
             /\ (req[r].op = "upload_pdf" /\ response'.request = r /\ response'.status = 200) =>
                    /\ vector_dbs'[req[r].session_id] = IndexOf(req[r])
                    /\ pdf_filenames'[req[r].session_id] = req[r].filename
      ]_vars

\* the first request, an upload for A, stored its index last: the upload of
\* another document for B arrived, ran and stored while it was in flight
C7_Witness ==
    /\ DOMAIN vector_dbs = Sessions
    /\ vector_dbs["A"] # vector_dbs["B"]
    /\ response.op = "upload_pdf" /\ response.status = 200
    /\ response.session_id = "A" /\ response.request = 1
    /\ pc[2] = "finished"

\* ==================================================================== C10
\* C10 as claimed: the message list generate sends is the developer message,
\* the session's current history in stored order, and one final user message
\* that is the raw user_message when the session has no index and the
\* templated message (top-k chunk texts joined by a blank line, and the
\* question) when the session has one.
C10_MessageList ==
    [][\A r \in Requests :
          (pc[r] = "accepted" /\ pc'[r] = "streaming") =>
             LET q == req[r]
                 s == q.session_id
             IN  req'[r].messages =
                     <<Turn("developer", developer_message)>>
                     \o get_conversation_context(conversation_histories, s)
                     \o <<Turn("user",
                              IF s \in DOMAIN vector_dbs
                              THEN enhanced_message(pdf_filenames[s],
                                       search_by_text(vector_dbs[s], q.user_message,
                                                      q.num_chunks_to_retrieve),
                                       q.user_message)
                              ELSE q.user_message)>>
      ]_vars

\* ==================================================================== C11
\* C11 as claimed: a clear_pdf request is never answered with an error: on a
\* session without an index it answers 200 with a "nothing to clear" result
\* and changes nothing; on a session with an index it answers 200 with
\* success and the session then has neither index nor filename.
C11_ClearIndexNeverAnError ==
    [][\A r \in Requests :
          (response'.request = r /\ response'.op = "clear_pdf" /\ pc[r] = "idle"
              /\ pc'[r] = "finished") =>
             LET s == response'.session_id IN
             /\ response'.status = 200
             /\ s \notin DOMAIN vector_dbs' /\ s \notin DOMAIN pdf_filenames'
             /\ s \notin DOMAIN vector_dbs =>
                    (vector_dbs' = vector_dbs /\ pdf_filenames' = pdf_filenames)
      ]_vars

\* ==================================================================== C12
\* C12: a clear_conversation request is always answered 200. On a session with
\* a history it removes the history, so get_conversation_context then returns
\* the empty list; on a session without one (also right after a previous
\* clear) it answers "No conversation history found for this session" and
\* changes no state. It never touches an index, a filename or another
\* session's history.
C12_ClearConversationIdempotent ==
    [][\A r \in Requests :
          (response'.request = r /\ response'.op = "clear_conversation"
              /\ pc[r] = "idle" /\ pc'[r] = "finished") =>
             LET s == response'.session_id IN
             /\ response'.status = 200
             /\ get_conversation_context(conversation_histories', s) = <<>>
             /\ s \notin DOMAIN conversation_histories'
             /\ IF s \in DOMAIN conversation_histories
                THEN response'.message = "Conversation history cleared successfully"
                ELSE /\ response'.message = "No conversation history found for this session"
                     /\ conversation_histories' = conversation_histories
             /\ \A t \in Sessions \ {s} :
                    Same(conversation_histories, conversation_histories', t)
             /\ vector_dbs' = vector_dbs /\ pdf_filenames' = pdf_filenames
      ]_vars

\* the third request cleared a session a second time: a turn had been saved
\* for it by the first request and the second request had cleared it
C12_Witness ==
    /\ response.op = "clear_conversation" /\ response.request = 3
    /\ response.message = "No conversation history found for this session"
    /\ last_turn[response.session_id] # <<>>
    /\ response.session_id \notin DOMAIN conversation_histories

\* ==================================================================== C13
\* the characters of the history from entry e + 1 on
chars_from(full, e) == content_chars(SubSeq(full, e + 1, Len(full)))

\* C13 as claimed: when a turn is saved, leading pairs are removed exactly
\* while more than one pair is left and the total character count is greater
\* than 4 times the budget; so a history of more than one pair and
\* 4 * budget + 1 characters is trimmed.
C13_OverBudgetAboveFourTimes ==
    [][\A r \in Requests :
          (completes(r) /\ strip_nonempty(req[r].assistant_response)) =>
             LET s    == req[r].session_id
                 full == get_conversation_context(conversation_histories, s)
                         \o <<Turn("user", req[r].user_message),
                              Turn("assistant", req[r].assistant_response)>>
                 post == conversation_histories'[s]
                 d    == Len(full) - Len(post)
             IN  /\ \A e \in 0..(d - 1) :
                        e % 2 = 0 => chars_from(full, e) > 4 * max_history_tokens
                 /\ Len(post) > 2 => ~(chars_from(full, d) > 4 * max_history_tokens)
      ]_vars

\* C13 as amended: when a turn is saved, leading pairs are removed exactly
\* while more than one pair is left and the total character count is at least
\* 4 * budget + 4 (the estimate is the floor of the count divided by 4); a
\* history of more than one pair and 4 * budget + 1 .. 4 * budget + 3
\* characters is kept whole.
C13_OverBudgetFloor ==
    [][\A r \in Requests :
          (completes(r) /\ strip_nonempty(req[r].assistant_response)) =>
             LET s    == req[r].session_id
                 full == get_conversation_context(conversation_histories, s)
                         \o <<Turn("user", req[r].user_message),
                              Turn("assistant", req[r].assistant_response)>>
                 post == conversation_histories'[s]
                 d    == Len(full) - Len(post)
             IN  /\ d >= 0 /\ d % 2 = 0
                 /\ post = SubSeq(full, d + 1, Len(full))
                 /\ \A e \in 0..(d - 1) :
                        e % 2 = 0 => chars_from(full, e) >= 4 * max_history_tokens + 4
                 /\ Len(post) > 2 => chars_from(full, d) <= 4 * max_history_tokens + 3
      ]_vars

\* a turn was saved and the history holds two whole pairs of together
\* 4 * budget + 1 characters
C13_Witness ==
    /\ response.op = "chat" /\ response.message = "stream complete"
    /\ response.session_id \in DOMAIN conversation_histories
    /\ LET h == conversation_histories[response.session_id] IN
       /\ Len(h) = 4
       /\ content_chars(h) = 4 * max_history_tokens + 1
       /\ h[3].content[1].id = response.request

\* ==================================================================== C14
\* C14: when an upload for a session that already has an index succeeds, the
\* session's index afterwards is exactly the index built from the new
\* document: one entry per chunk of the new text, in chunk order, each with
\* the chunk's own vector, and no entry of the index it replaces; the stored
\* filename and the filename and count in the response are the new upload's.
C14_ReingestReplaces ==
    [][\A r \in Requests :
          (/\ req[r].op = "upload_pdf"
           /\ response'.request = r /\ response'.status = 200
           /\ req[r].session_id \in DOMAIN vector_dbs) =>
             LET s      == req[r].session_id
                 chunks == split(req[r].text, req[r].chunk_size, req[r].chunk_overlap)
                 db     == vector_dbs'[s]
             IN  /\ Len(db) = Len(chunks)
                 /\ \A i \in 1..Len(db) :
                        /\ db[i].chunk = chunks[i]
                        /\ db[i].vector = EmbedOf(chunks[i])
                        /\ db[i].chunk[1].id = req[r].text[1].id
                 /\ pdf_filenames'[s] = req[r].filename
                 /\ response'.filename = req[r].filename
                 /\ response'.chunks = Len(chunks)
      ]_vars

\* the third request, an upload of b.pdf, stored its two-entry index for a
\* session whose index was that of the first request's document: the second
\* request, a chat whose stream has not begun, has built its message from it
C14_Witness ==
    /\ response.op = "upload_pdf" /\ response.status = 200 /\ response.request = 3
    /\ response.filename = Filename("b", ".pdf") /\ response.chunks = 2
    /\ pc[2] = "streaming" /\ req[2].messages # <<>>
    /\ req[2].session_id = response.session_id
    /\ LET sent == req[2].messages[Len(req[2].messages)].content IN
       \E i \in 1..Len(sent) : sent[i].src = "doc" /\ sent[i].id = 1
    /\ Len(vector_dbs[response.session_id]) = 2
    /\ \A i \in 1..2 : vector_dbs[response.session_id][i].chunk[1].id = 2

\* ==================================================================== C15
\* C15: whatever chats, clears and uploads are in flight, every stored history
\* is a sequence of whole pairs: even length, roles alternating user,
\* assistant, each user turn immediately followed by the assistant turn of the
\* same request, and the trim already applied (within the budget or a single
\* pair). No state shows a user turn without its assistant turn, a pair
\* split by another request's turn, or an appended but untrimmed history.
C15_WholePairsOnly ==
    \A s \in DOMAIN conversation_histories :
        LET h == conversation_histories[s] IN
        /\ Len(h) % 2 = 0
        /\ \A i \in 1..Len(h) :
               h[i].role = IF i % 2 = 1 THEN "user" ELSE "assistant"
        /\ \A i \in 1..Len(h) :
               i % 2 = 1 =>
                  /\ h[i].content[1].src = "user"
                  /\ h[i + 1].content # <<>>
                  /\ h[i + 1].content[1].id = h[i].content[1].id
        /\ Len(h) <= 2 \/ estimate_tokens(h) <= max_history_tokens

\* two chats of one session were in flight together and both saved: the pair
\* of the second request is stored before the pair of the first
C15_Witness ==
    \E s \in DOMAIN conversation_histories :
        LET h == conversation_histories[s] IN
        /\ Len(h) = 4
        /\ h[1].content[1].id = 2 /\ h[2].content[1].id = 2
        /\ h[3].content[1].id = 1 /\ h[4].content[1].id = 1

\* ==================================================================== C16
\* the least integer not below a / b, for b > 0
ceil_div(a, b) == (a + b - 1) \div b

\* C16 as claimed: the chunks split returns for a non-empty text under a valid
\* configuration number ceil((len(T) - chunk_overlap) / (chunk_size - chunk_overlap)).
C16_ChunkCountFormula ==
    \A r \in Requests :
        (req[r].op = "upload_pdf" /\ pc[r] = "embedding") =>
            Len(req[r].list_of_text) =
                ceil_div(len(req[r].text) - req[r].chunk_overlap,
                         req[r].chunk_size - req[r].chunk_overlap)

\* C16 as amended: the chunks split returns for a non-empty text under a valid
\* configuration number ceil(len(T) / (chunk_size - chunk_overlap)): one per
\* window start 0, step, 2 * step, ... below len(T), chunk i being the text
\* from its start to start + chunk_size or the end of the text.
C16_ChunkCountOfWalk ==
    \A r \in Requests :
        (req[r].op = "upload_pdf" /\ pc[r] = "embedding") =>
            LET q    == req[r]
                step == q.chunk_size - q.chunk_overlap
            IN  /\ len(q.text) > 0
                /\ Len(q.list_of_text) = ceil_div(len(q.text), step)
                /\ \A i \in 1..Len(q.list_of_text) :
                       /\ (i - 1) * step < len(q.text)
                       /\ q.list_of_text[i] =
                              <<Block("doc", q.text[1].id, (i - 1) * step,
                                      Min((i - 1) * step + q.chunk_size, len(q.text)))>>

\* the text of 2500 characters was split by 1000 with overlap 200 into the
\* four chunks that start at 0, 800, 1600 and 2400
C16_Witness ==
    \E r \in Requests :
        /\ req[r].op = "upload_pdf" /\ pc[r] = "embedding"
        /\ len(req[r].text) = 2500
        /\ req[r].chunk_size = default_chunk_size
        /\ req[r].chunk_overlap = default_chunk_overlap
        /\ Len(req[r].list_of_text) = 4
        /\ req[r].list_of_text[4] = <<Block("doc", 1, 2400, 2500)>>

C18_IndexAndFilenameTogether ==
    /\ DOMAIN vector_dbs = DOMAIN pdf_filenames
    /\ \A s \in DOMAIN vector_dbs :
           \E u \in UploadInputs :
              /\ u.chunk_overlap < u.chunk_size
              /\ vector_dbs[s] = IndexOf(u) /\ pdf_filenames[s] = u.filename
    /\ response.op = "pdf_status" =>
           IF response.has_pdf
           THEN \E u \in UploadInputs :
                   /\ u.chunk_overlap < u.chunk_size
                   /\ response.filename = u.filename
                   /\ response.chunks = Len(IndexOf(u))
           ELSE response.filename = None /\ response.chunks = 0

\* pdf_status answered with b.pdf and its two entries while an upload of
\* a.pdf for the same session is waiting for its embeddings
C18_Witness ==
    /\ response.op = "pdf_status" /\ response.has_pdf
    /\ response.filename = Filename("b", ".pdf") /\ response.chunks = 2
    /\ \E r \in Requests :
          /\ pc[r] = "embedding" /\ req[r].op = "upload_pdf"
          /\ req[r].session_id = response.session_id
          /\ req[r].filename = Filename("a", ".pdf")
    /\ pdf_filenames[response.session_id] = Filename("b", ".pdf")

\* ==================================================================== C19
\* C19 as claimed: when generate of a chat request looks the session up, a
\* request that decided at its acceptance that the session is indexed finds
\* the index and the filename present, whatever clears and uploads of the
\* same session ran in between; the message it sends is the raw one or the
\* template filled from the index and the filename present at the lookup.
C19_DecisionMatchesLookup ==
    [][\A r \in Requests :
          (/\ req[r].op = "chat" /\ pc[r] = "accepted" /\ pc'[r] # "accepted"
           /\ ~(response'.request = r /\ response'.message = "stream abandoned")) =>
             LET q == req[r]
                 s == q.session_id
             IN  /\ q.has_pdf => (s \in DOMAIN vector_dbs /\ s \in DOMAIN pdf_filenames)
                 /\ pc'[r] = "streaming" =>
                        req'[r].messages[Len(req'[r].messages)].content \in
                           {q.user_message}
                           \cup (IF s \in DOMAIN vector_dbs /\ s \in DOMAIN pdf_filenames
                                 THEN {enhanced_message(pdf_filenames[s],
                                           search_by_text(vector_dbs[s], q.user_message,
                                                          q.num_chunks_to_retrieve),
                                           q.user_message)}
                                 ELSE {})
      ]_vars

====
